---- MODULE Spec2Model ----
(***************************************************************************)
(* State-machine model of src/script.js: the SVG freehand drawing tool.   *)
(* Path elements are heap nodes (paths), strokesGroup is the ordered list  *)
(* of children of the #strokes group, strokeHistory the undo list.  The    *)
(* "d" attribute of a path is modelled as the sequence of its commands.    *)
(***************************************************************************)
EXTENDS Integers, Sequences, FiniteSets, TLC

VARIABLES
    drawing,        \* script.js:16
    currentPath,    \* script.js:17  (a node id, or Null)
    currentPoints,  \* script.js:18
    strokeHistory,  \* script.js:19  (sequence of node ids)
    strokesGroup,   \* script.js:9   (children of #strokes, in document order)
    paths,          \* the <path> elements that are still referenced: id -> attributes
    colorPicker,    \* script.js:10  (its .value)
    widthRange,     \* script.js:11  (its .value)
    capture,        \* the pointer id captured by the svg element, or NoPointer
    uncaught,       \* the exception that escaped the last handler, or "none"
    exports,        \* script.js:135 the exports in flight: id -> the image being loaded
    outcomes,       \* per export: what it has delivered so far (files, notices)
    samples,        \* observer: the samples of the gesture in progress, as delivered
    downControls,   \* observer: the control values at the gesture's pointer-down
    probe,          \* observer: inputs and results of the coordinate mapping under test
    lastEvent       \* observer: the event handled last

recorderVars == <<drawing, currentPath, currentPoints, strokeHistory, strokesGroup, paths>>
controlVars == <<colorPicker, widthRange>>
exportVars == <<exports, outcomes>>
vars == <<drawing, currentPath, currentPoints, strokeHistory, strokesGroup, paths,
          colorPicker, widthRange, capture, uncaught, exports, outcomes,
          samples, downControls, probe, lastEvent>>

----------------------------------------------------------------------------
(* Bounds of the model *)

\* the size of the live paths together: one unit per path and one per recorded point
MaxLiveSize == 6

\* exports triggered in one session
MaxExports == 2

----------------------------------------------------------------------------
(* Constants of the program and the inputs the model draws from *)

vbWidth == 1000
vbHeight == 600

Null == 0
NoPointer == 0

\* svg.getBoundingClientRect(): the on-screen box of the canvas
BoundingClientRect == [left |-> 64, top |-> 32, width |-> 256, height |-> 128]

\* screen positions of the pointer; with the box above they map to exact
\* logical coordinates, so the floating-point arithmetic of the code is exact
Positions == {[clientX |-> 64, clientY |-> 32], [clientX |-> 192, clientY |-> 96]}

PointerDownEvents ==
    { [pointerType |-> t, button |-> b, pointerId |-> 1,
       clientX |-> pos.clientX, clientY |-> pos.clientY] :
         t \in {"mouse", "pen", "touch"}, b \in {0, 2}, pos \in Positions }

PointerEvents ==
    { [pointerType |-> "mouse", button |-> b, pointerId |-> 1,
       clientX |-> pos.clientX, clientY |-> pos.clientY] :
         b \in {0, 2}, pos \in Positions }

KeyEvents ==
    { [ctrlKey |-> c, metaKey |-> m, key |-> k] :
         c \in BOOLEAN, m \in BOOLEAN, k \in {"z", "Z", "y"} }

\* the settings the user moves the two controls between
ControlSettings == { [color |-> "#000000", width |-> "4"],
                     [color |-> "#ff0000", width |-> "8"] }

----------------------------------------------------------------------------
(* Helpers *)

Range(s) == { s[i] : i \in 1..Len(s) }

Last(s) == s[Len(s)]

\* parent.removeChild(node) for a node that is a child
removeChild(children, node) == SelectSeq(children, LAMBDA c : c # node)

\* the nodes still referenced from the document or from the script's variables
Referenced(heap, history, children, current) ==
    [ id \in (Range(history) \cup Range(children) \cup ({current} \ {Null}))
             \cap DOMAIN heap |-> heap[id] ]

\* document.createElementNS: a node that is not in use
NewNode(heap) ==
    CHOOSE id \in 1..(Cardinality(DOMAIN heap) + 1) :
        /\ id \notin DOMAIN heap
        /\ \A j \in 1..(id - 1) : j \in DOMAIN heap

\* commands of a path's d attribute
MoveTo(p) == [cmd |-> "M", args |-> <<p.x, p.y>>]
LineTo(p) == [cmd |-> "L", args |-> <<p.x, p.y>>]
QuadTo(c, mx, my) == [cmd |-> "Q", args |-> <<c.x, c.y, mx, my>>]

getSvgPoint_noOffset(event, rect) ==
    [ x |-> (event.clientX * vbWidth) \div rect.width,
      y |-> (event.clientY * vbHeight) \div rect.height ]

\* Convert pointer coords to SVG coordinates.  The code divides by the box size
\* and then multiplies by the viewBox size, in floating point; on the inputs
\* drawn here (box sizes that are powers of two) both orders give the same
\* exact integer, so the integer form below is the value the code computes.
getSvgPoint(event, rect) ==
    [ x |-> ((event.clientX - rect.left) * vbWidth) \div rect.width,
      y |-> ((event.clientY - rect.top) * vbHeight) \div rect.height ]

----------------------------------------------------------------------------
(* Stroke recorder *)

\* script.js:42-48: the new <path> with its initial attributes
createPath(p, color, width) ==
    [ class |-> "stroke", stroke |-> color, strokeWidth |-> width,
      fill |-> "none", d |-> <<MoveTo(p)>>, pointerEvents |-> "none" ]

isFiltered_anyButton(event) == event.button # 0

\* script.js:35: Only left mouse button or pen/touch
isFiltered(event) == event.pointerType = "mouse" /\ event.button # 0

\* Start a new path
beginStroke(event) ==
    IF isFiltered(event)
    THEN UNCHANGED <<recorderVars, capture>>
    ELSE LET p == getSvgPoint(event, BoundingClientRect)
             node == NewNode(paths)
         IN /\ drawing' = TRUE
            /\ capture' = event.pointerId
            /\ currentPoints' = <<p>>
            /\ currentPath' = node
            /\ strokesGroup' = Append(strokesGroup, node)
            /\ paths' = Referenced(paths @@ (node :> createPath(p, colorPicker, widthRange)),
                                   strokeHistory, strokesGroup', node)
            /\ UNCHANGED strokeHistory

pushPoint_dedupe(points, p) ==
    IF Last(points) = p THEN points ELSE Append(points, p)

\* script.js:58: currentPoints.push(p)
pushPoint(points, p) == Append(points, p)

RECURSIVE quadSegments_lag(_, _)
quadSegments_lag(points, i) ==
    IF i >= Len(points) THEN <<>>
    ELSE <<QuadTo(points[i], (points[i - 1].x + points[i].x) \div 2,
                             (points[i - 1].y + points[i].y) \div 2)>>
         \o quadSegments_lag(points, i + 1)

\* script.js:68-72: one Q command per interior point, from index i on
RECURSIVE quadSegments(_, _)
quadSegments(points, i) ==
    IF i >= Len(points) THEN <<>>
    ELSE <<QuadTo(points[i], (points[i].x + points[i + 1].x) \div 2,
                             (points[i].y + points[i + 1].y) \div 2)>>
         \o quadSegments(points, i + 1)

\* script.js:67-75: the d attribute rebuilt from all the points
smoothPath(points) ==
    <<MoveTo(points[1])>> \o quadSegments(points, 2) \o <<LineTo(Last(points))>>

\* Add points to current path
continueStroke(event) ==
    IF ~drawing \/ currentPath = Null
    THEN UNCHANGED recorderVars
    ELSE LET p == getSvgPoint(event, BoundingClientRect)
             points == pushPoint(currentPoints, p)
             d == IF Len(points) < 3
                  THEN paths[currentPath].d \o <<LineTo(p)>>
                  ELSE smoothPath(points)
         IN /\ currentPoints' = points
            /\ paths' = [paths EXCEPT ![currentPath].d = d]
            /\ UNCHANGED <<drawing, currentPath, strokeHistory, strokesGroup>>

isDegenerate_off(points) == Len(points) < 1

\* script.js:87: the path is essentially empty
isDegenerate(points) == Len(points) < 2

finalAttributes_stale(path, color, width) == path

\* script.js:91-92: ensure final attributes match current controls
finalAttributes(path, color, width) ==
    [path EXCEPT !.stroke = color, !.strokeWidth = width]

commitAttributes_all(heap, node, color, width) ==
    [id \in DOMAIN heap |-> finalAttributes(heap[id], color, width)]

\* script.js:91-92: the attributes are set on currentPath, on no other path
commitAttributes(heap, node, color, width) ==
    [heap EXCEPT ![node] = finalAttributes(@, color, width)]

pushStroke_front(history, node) == <<node>> \o history

\* script.js:93: strokeHistory.push(currentPath)
pushStroke(history, node) == Append(history, node)

discardPath_keep(children, node) == children

\* script.js:88: strokesGroup.removeChild(currentPath)
discardPath(children, node) == removeChild(children, node)

\* Finish stroke.  releaseThrows: releasePointerCapture raises (script.js:83)
endStroke(event, releaseThrows) ==
    IF ~drawing
    THEN /\ uncaught' = "none"
         /\ UNCHANGED recorderVars
    ELSE /\ drawing' = FALSE
         /\ IF currentPath = Null
            THEN /\ uncaught' = "none"
                 /\ UNCHANGED <<currentPath, currentPoints, strokeHistory,
                                strokesGroup, paths>>
            ELSE IF isDegenerate(currentPoints)
            THEN IF currentPath \in Range(strokesGroup)
                 THEN /\ strokesGroup' = discardPath(strokesGroup, currentPath)
                      /\ currentPath' = Null
                      /\ currentPoints' = <<>>
                      /\ paths' = Referenced(paths, strokeHistory, strokesGroup', Null)
                      /\ uncaught' = "none"
                      /\ UNCHANGED strokeHistory
                 ELSE \* removeChild of a node that is not a child raises
                      /\ uncaught' = "NotFoundError"
                      /\ UNCHANGED <<currentPath, currentPoints, strokeHistory,
                                     strokesGroup, paths>>
            ELSE /\ paths' = commitAttributes(paths, currentPath, colorPicker, widthRange)
                 /\ strokeHistory' = pushStroke(strokeHistory, currentPath)
                 /\ currentPath' = Null
                 /\ currentPoints' = <<>>
                 /\ uncaught' = "none"
                 /\ UNCHANGED strokesGroup

popLast_shift(history) == SubSeq(history, 2, Len(history))

\* script.js:101: strokeHistory.pop() leaves all but the last element
popLast(history) == SubSeq(history, 1, Len(history) - 1)

\* Undo last stroke
undoLast ==
    IF strokeHistory = <<>>
    THEN UNCHANGED recorderVars
    ELSE LET last == Last(strokeHistory)
         IN /\ strokeHistory' = popLast(strokeHistory)
            /\ strokesGroup' = IF last \in Range(strokesGroup)
                               THEN removeChild(strokesGroup, last)
                               ELSE strokesGroup
            /\ paths' = Referenced(paths, strokeHistory', strokesGroup', currentPath)
            /\ UNCHANGED <<drawing, currentPath, currentPoints>>

removeAllChildren_none(children) == children

\* script.js:108: remove firstChild while there is one
removeAllChildren(children) == <<>>

\* Clear all strokes
clearAll ==
    /\ strokeHistory' = <<>>
    /\ strokesGroup' = removeAllChildren(strokesGroup)
    /\ paths' = Referenced(paths, strokeHistory', strokesGroup', currentPath)
    /\ UNCHANGED <<drawing, currentPath, currentPoints>>

onPointerLeave_end(event) == endStroke(event, FALSE)

\* script.js:175-177: the pointerleave listener has an empty body
onPointerLeave(event) ==
    /\ uncaught' = "none"
    /\ UNCHANGED recorderVars

\* script.js:185-190: Ctrl/Cmd+Z
onKeyDown(event) ==
    IF (event.ctrlKey \/ event.metaKey) /\ event.key \in {"z", "Z"}
    THEN undoLast
    ELSE UNCHANGED recorderVars

----------------------------------------------------------------------------
(* Raster export *)

\* script.js:118: must match the viewBox in index.html
vb == [width |-> 1000, height |-> 600]

\* script.js:114-132: the clone of the svg, serialized with its namespaces
serializeScene(children, heap) ==
    [ xmlns |-> TRUE, xmlnsXlink |-> TRUE,
      width |-> vb.width, height |-> vb.height,
      strokes |-> [i \in 1..Len(children) |-> heap[children[i]]] ]

\* no file, no notice
NoOutcome == [files |-> <<>>, notices |-> 0]

\* Save as PNG: serialize SVG, then load it into an image (script.js:112-137, 167)
saveAsPng ==
    LET id == Cardinality(DOMAIN outcomes) + 1
    IN /\ exports' = exports @@ (id :> [src |-> serializeScene(strokesGroup, paths)])
       /\ outcomes' = outcomes @@ (id :> NoOutcome)

paintCanvas_under(img) ==
    [ width |-> vb.width, height |-> vb.height,
      layers |-> << [op |-> "drawImage", image |-> img.src.strokes,
                     x |-> 0, y |-> 0, w |-> vb.width, h |-> vb.height],
                    [op |-> "fillRect", fillStyle |-> "#ffffff",
                     x |-> 0, y |-> 0, w |-> vb.width, h |-> vb.height] >> ]

\* script.js:140-149: the canvas, white first, then the image
paintCanvas(img) ==
    [ width |-> vb.width, height |-> vb.height,
      layers |-> << [op |-> "fillRect", fillStyle |-> "#ffffff",
                     x |-> 0, y |-> 0, w |-> vb.width, h |-> vb.height],
                    [op |-> "drawImage", image |-> img.src.strokes,
                     x |-> 0, y |-> 0, w |-> vb.width, h |-> vb.height] >> ]

imgOnload_live(id) ==
    /\ id \in DOMAIN exports
    /\ exports' = [e \in DOMAIN exports \ {id} |-> exports[e]]
    /\ outcomes' = [outcomes EXCEPT ![id].files =
                        Append(@, paintCanvas([src |-> serializeScene(strokesGroup, paths)]))]

\* script.js:139-160: img.onload of export id
imgOnload(id) ==
    /\ id \in DOMAIN exports
    /\ exports' = [e \in DOMAIN exports \ {id} |-> exports[e]]
    /\ outcomes' = [outcomes EXCEPT ![id].files = Append(@, paintCanvas(exports[id]))]

imgOnerror_retry(id) ==
    /\ id \in DOMAIN exports
    /\ exports' = exports
    /\ outcomes' = [outcomes EXCEPT ![id].notices = @ + 1,
                                    ![id].files = Append(@, paintCanvas(exports[id]))]

\* script.js:162-165: img.onerror of export id
imgOnerror(id) ==
    /\ id \in DOMAIN exports
    /\ exports' = [e \in DOMAIN exports \ {id} |-> exports[e]]
    /\ outcomes' = [outcomes EXCEPT ![id].notices = @ + 1]

----------------------------------------------------------------------------
(* The events of the page *)

\* the user moves the colour and width controls
setControls(c) ==
    /\ colorPicker' = c.color
    /\ widthRange' = c.width

RECURSIVE SumSize(_, _)
SumSize(heap, ids) ==
    IF ids = {} THEN 0
    ELSE LET id == CHOOSE i \in ids : TRUE
         IN 1 + Len(heap[id].d) + SumSize(heap, ids \ {id})

\* the size of all live paths (d holds one command per recorded point)
LiveSize == SumSize(paths, DOMAIN paths)

NoControls == [color |-> "", width |-> ""]

NoProbe == [measured |-> FALSE]

Controls == [color |-> colorPicker, width |-> widthRange]

Position(event) == [clientX |-> event.clientX, clientY |-> event.clientY]

ReleaseEffect ==
    IF samples = <<>> THEN "none" ELSE IF Len(samples) >= 2 THEN "release" ELSE "tap"

Event(type, effect) ==
    [type |-> type, effect |-> effect, export |-> 0, restyled |-> FALSE,
     releaseThrew |-> FALSE]

ExportEvent(type, id) ==
    [type |-> type, effect |-> "none", export |-> id, restyled |-> FALSE,
     releaseThrew |-> FALSE]

\* releaseThrows counts when the handler gets to releasePointerCapture
ReleaseEvent(type, releaseThrows) ==
    [type |-> type, effect |-> ReleaseEffect, export |-> 0,
     restyled |-> (samples # <<>> /\ downControls # Controls),
     releaseThrew |-> (drawing /\ releaseThrows)]

Accepted(event) == ~(event.pointerType = "mouse" /\ event.button # 0)

PointerDown ==
    \E e \in PointerDownEvents :
        /\ LiveSize + 2 <= MaxLiveSize
        /\ beginStroke(e)
        /\ uncaught' = "none"
        /\ samples' = IF Accepted(e) THEN <<Position(e)>> ELSE samples
        /\ downControls' = IF Accepted(e) THEN Controls ELSE downControls
        /\ lastEvent' = Event("pointerdown", IF Accepted(e) THEN "begin" ELSE "filtered")
        /\ UNCHANGED <<controlVars, exportVars, probe>>

PointerMove ==
    \E e \in PointerEvents :
        /\ drawing => LiveSize + 1 <= MaxLiveSize
        /\ continueStroke(e)
        /\ uncaught' = "none"
        /\ samples' = IF samples # <<>> THEN Append(samples, Position(e)) ELSE samples
        /\ lastEvent' = Event("pointermove", IF samples # <<>> THEN "sample" ELSE "none")
        /\ UNCHANGED <<controlVars, capture, exportVars, downControls, probe>>

PointerUp ==
    \E e \in PointerEvents, releaseThrows \in BOOLEAN :
        /\ endStroke(e, releaseThrows)
        /\ capture' = NoPointer
        /\ samples' = <<>>
        /\ downControls' = NoControls
        /\ lastEvent' = ReleaseEvent("pointerup", releaseThrows)
        /\ UNCHANGED <<controlVars, exportVars, probe>>

PointerCancel ==
    \E e \in PointerEvents, releaseThrows \in BOOLEAN :
        /\ endStroke(e, releaseThrows)
        /\ capture' = NoPointer
        /\ samples' = <<>>
        /\ downControls' = NoControls
        /\ lastEvent' = ReleaseEvent("pointercancel", releaseThrows)
        /\ UNCHANGED <<controlVars, exportVars, probe>>

PointerLeave ==
    \E e \in PointerEvents :
        /\ onPointerLeave(e)
        /\ lastEvent' = Event("pointerleave", "none")
        /\ UNCHANGED <<controlVars, capture, exportVars, samples, downControls, probe>>

ClickUndo ==
    /\ undoLast
    /\ uncaught' = "none"
    /\ lastEvent' = Event("undo", IF strokeHistory = <<>> THEN "empty" ELSE "pop")
    /\ UNCHANGED <<controlVars, capture, exportVars, samples, downControls, probe>>

KeyDown ==
    \E e \in KeyEvents :
        /\ onKeyDown(e)
        /\ uncaught' = "none"
        /\ lastEvent' = Event("keydown",
                IF (e.ctrlKey \/ e.metaKey) /\ e.key \in {"z", "Z"}
                THEN (IF strokeHistory = <<>> THEN "empty" ELSE "pop")
                ELSE "none")
        /\ UNCHANGED <<controlVars, capture, exportVars, samples, downControls, probe>>

ClickClear ==
    /\ clearAll
    /\ uncaught' = "none"
    /\ lastEvent' = Event("clear", "none")
    /\ UNCHANGED <<controlVars, capture, exportVars, samples, downControls, probe>>

InputControls ==
    \E c \in ControlSettings :
        /\ setControls(c)
        /\ uncaught' = "none"
        /\ lastEvent' = Event("input", "none")
        /\ UNCHANGED <<recorderVars, capture, exportVars, samples, downControls, probe>>

ClickSave ==
    /\ Cardinality(DOMAIN outcomes) < MaxExports
    /\ saveAsPng
    /\ uncaught' = "none"
    /\ lastEvent' = ExportEvent("save", Cardinality(DOMAIN outcomes) + 1)
    /\ UNCHANGED <<recorderVars, controlVars, capture, samples, downControls, probe>>

ImageLoad ==
    \E id \in DOMAIN exports :
        /\ imgOnload(id)
        /\ uncaught' = "none"
        /\ lastEvent' = ExportEvent("load", id)
        /\ UNCHANGED <<recorderVars, controlVars, capture, samples, downControls, probe>>

ImageError ==
    \E id \in DOMAIN exports :
        /\ imgOnerror(id)
        /\ uncaught' = "none"
        /\ lastEvent' = ExportEvent("error", id)
        /\ UNCHANGED <<recorderVars, controlVars, capture, samples, downControls, probe>>

----------------------------------------------------------------------------
(* Specifications *)

\* script.js:16-19 and the page as loaded: nothing drawn, no export started
Init ==
    /\ drawing = FALSE
    /\ currentPath = Null
    /\ currentPoints = <<>>
    /\ strokeHistory = <<>>
    /\ strokesGroup = <<>>
    /\ paths = <<>>
    /\ colorPicker = "#000000"
    /\ widthRange = "4"
    /\ capture = NoPointer
    /\ uncaught = "none"
    /\ exports = <<>>
    /\ outcomes = <<>>
    /\ samples = <<>>
    /\ downControls = NoControls
    /\ probe = NoProbe
    /\ lastEvent = Event("load page", "none")

\* the stroke recorder and its history
Next ==
    \/ PointerDown
    \/ PointerMove
    \/ PointerUp
    \/ PointerCancel
    \/ PointerLeave
    \/ ClickUndo
    \/ KeyDown
    \/ ClickClear
    \/ InputControls

Spec == Init /\ [][Next]_vars

\* a drawing in progress: one committed stroke and a second gesture under way
DrawnPositions == << [clientX |-> 192, clientY |-> 96], [clientX |-> 64, clientY |-> 32] >>

DrawnPoint(i) == getSvgPoint(DrawnPositions[i], BoundingClientRect)

DrawnPaths ==
    (1 :> finalAttributes(
            [createPath(DrawnPoint(2), "#000000", "4") EXCEPT
                !.d = @ \o <<LineTo(DrawnPoint(1))>>], "#ff0000", "8"))
    @@ (2 :> [createPath(DrawnPoint(1), "#ff0000", "8") EXCEPT
                !.d = @ \o <<LineTo(DrawnPoint(2))>>])

\* the page with no export started yet, the user in the middle of a second stroke
InitExport ==
    /\ drawing = TRUE
    /\ currentPath = 2
    /\ currentPoints = <<DrawnPoint(1), DrawnPoint(2)>>
    /\ strokeHistory = <<1>>
    /\ strokesGroup = <<1, 2>>
    /\ paths = DrawnPaths
    /\ colorPicker = "#ff0000"
    /\ widthRange = "8"
    /\ capture = 1
    /\ uncaught = "none"
    /\ exports = <<>>
    /\ outcomes = <<>>
    /\ samples = DrawnPositions
    /\ downControls = [color |-> "#ff0000", width |-> "8"]
    /\ probe = NoProbe
    /\ lastEvent = Event("pointermove", "sample")

\* the export, with the events that change the scene under it
NextExport ==
    \/ ClickSave
    \/ ImageLoad
    \/ ImageError
    \/ PointerUp
    \/ ClickUndo
    \/ ClickClear
    \/ InputControls

\* the browser ends every image load with a load event or an error event
SpecExport == InitExport /\ [][NextExport]_vars /\ WF_vars(ImageLoad \/ ImageError)

----------------------------------------------------------------------------
(* Properties *)

\* the points a d attribute records: the point of M and of L, the control point of Q
PointsOf(d) == [i \in 1..Len(d) |-> [x |-> d[i].args[1], y |-> d[i].args[2]]]

\* the samples of the gesture in progress, in logical coordinates
LogicalSamples ==
    [i \in 1..Len(samples) |-> getSvgPoint(samples[i], BoundingClientRect)]

ReleaseStep == lastEvent'.type \in {"pointerup", "pointercancel"}

UndoStep == lastEvent'.effect \in {"pop", "empty"}

\* C1: a gesture of one pointer-down and k >= 1 moves, when released, appends
\* exactly one stroke to strokeHistory, and the points that stroke records are
\* the k+1 samples received, in the order received.
C1_ReleaseCommitsEverySample ==
    [][ (ReleaseStep /\ Len(samples) >= 2) =>
            \E id \in DOMAIN paths' :
                /\ strokeHistory' = Append(strokeHistory, id)
                /\ PointsOf(paths'[id].d) = LogicalSamples ]_vars

C1_Witness ==
    /\ lastEvent.type = "pointerup"
    /\ lastEvent.effect = "release"
    /\ strokeHistory # <<>>
    /\ LET pts == PointsOf(paths[Last(strokeHistory)].d)
       IN Len(pts) = 3 /\ pts[1] # pts[2] /\ pts[2] = pts[3]

\* C2: releasing a gesture that has a single sample (a tap) leaves strokeHistory
\* as it was and takes the gesture's path out of the scene, the other paths
\* staying where they are.
C2_TapLeavesNothing ==
    [][ (ReleaseStep /\ Len(samples) = 1) =>
            /\ strokeHistory' = strokeHistory
            /\ currentPath \notin Range(strokesGroup')
            /\ strokesGroup' = removeChild(strokesGroup, currentPath) ]_vars

C2_Witness ==
    /\ lastEvent.effect = "tap"
    /\ lastEvent.type = "pointercancel"
    /\ strokeHistory # <<>>
    /\ Len(strokesGroup) = Len(strokeHistory)

\* C3: undo on a non-empty history removes its last stroke and nothing else
\* (the strokes that stay keep their order and their attributes) and takes that
\* stroke's path out of the scene; undo on an empty history changes nothing
\* and no exception escapes.
C3_UndoRemovesLast ==
    [][ UndoStep =>
            /\ uncaught' = "none"
            /\ IF strokeHistory # <<>>
               THEN /\ Len(strokeHistory') = Len(strokeHistory) - 1
                    /\ strokeHistory' = SubSeq(strokeHistory, 1, Len(strokeHistory) - 1)
                    /\ strokesGroup' = removeChild(strokesGroup, Last(strokeHistory))
                    /\ \A id \in Range(strokeHistory') : paths'[id] = paths[id]
               ELSE UNCHANGED recorderVars ]_vars

C3_Witness ==
    /\ lastEvent.effect = "pop"
    /\ Len(strokeHistory) = 1
    /\ Len(strokesGroup) = 1

\* C4: clear, in whatever state it is invoked, leaves strokeHistory empty and
\* the scene without paths, and an undo never adds a path to the scene or a
\* stroke to the history, so no undo brings back what was cleared.
C4_ClearEmptiesForGood ==
    [][ /\ lastEvent'.type = "clear" =>
            (strokeHistory' = <<>> /\ strokesGroup' = <<>>)
        /\ UndoStep =>
            /\ Range(strokesGroup') \subseteq Range(strokesGroup)
            /\ Range(strokeHistory') \subseteq Range(strokeHistory)
            /\ (strokesGroup = <<>> => strokesGroup' = <<>>) ]_vars

C4_Witness ==
    /\ lastEvent.type = "clear"
    /\ drawing
    /\ currentPath # Null
    /\ Len(currentPoints) >= 2
    /\ strokesGroup = <<>>

\* C5: every stroke of strokeHistory records at least 2 points.
C5_HistoryStrokesHaveTwoPoints ==
    \A i \in 1..Len(strokeHistory) :
        /\ strokeHistory[i] \in DOMAIN paths
        /\ Len(PointsOf(paths[strokeHistory[i]].d)) >= 2

C5_Witness ==
    /\ lastEvent.effect = "tap"
    /\ Len(strokeHistory) = 1
    /\ Len(PointsOf(paths[strokeHistory[1]].d)) = 2

\* the midpoint of two points
Mid(a, b) == [x |-> (a.x + b.x) \div 2, y |-> (a.y + b.y) \div 2]

\* the smoothing of a point list P of n >= 2 points, as the claim states it
SmoothingOf(P) ==
    LET n == Len(P)
    IN IF n = 2
       THEN << MoveTo(P[1]), LineTo(P[2]) >>
       ELSE << MoveTo(P[1]) >>
            \o [i \in 1..(n - 2) |->
                  QuadTo(P[i + 1], Mid(P[i + 1], P[i + 2]).x, Mid(P[i + 1], P[i + 2]).y)]
            \o << LineTo(P[n]) >>

\* C6: after every move sample of a gesture the path of the active stroke is
\* the smoothing, from scratch, of all the samples so far, and it ends with a
\* line to the most recent sample.
C6_PathIsSmoothingOfAllSamples ==
    (lastEvent.type = "pointermove" /\ lastEvent.effect = "sample") =>
        /\ currentPath \in DOMAIN paths
        /\ paths[currentPath].d = SmoothingOf(LogicalSamples)
        /\ Last(paths[currentPath].d) = LineTo(Last(LogicalSamples))

C6_Witness ==
    /\ lastEvent.type = "pointermove"
    /\ lastEvent.effect = "sample"
    /\ Len(samples) = 4
    /\ samples[1] = samples[2]
    /\ samples[2] # samples[3]
    /\ Len(SelectSeq(paths[currentPath].d, LAMBDA c : c.cmd = "Q")) = 2

\* C7: the stroke committed by a release carries the colour and width the
\* controls have at the release, whatever they were at pointer-down.
C7_CommittedAttributesAreLive ==
    lastEvent.effect = "release" =>
        /\ strokeHistory # <<>>
        /\ paths[Last(strokeHistory)].stroke = colorPicker
        /\ paths[Last(strokeHistory)].strokeWidth = widthRange

C7_Witness ==
    /\ lastEvent.effect = "release"
    /\ lastEvent.restyled
    /\ strokeHistory # <<>>
    /\ paths[Last(strokeHistory)].stroke = "#ff0000"
    /\ paths[Last(strokeHistory)].strokeWidth = "8"

\* C8: a pointer-leave while Drawing changes neither the drawing flag, the
\* active stroke and its points, the scene nor strokeHistory, and the recorder
\* goes from Drawing to Idle on a pointer-up or pointer-cancel only.
C8_LeaveDoesNotEndGesture ==
    [][ /\ (lastEvent'.type = "pointerleave" /\ drawing) => UNCHANGED recorderVars
        /\ (drawing /\ ~drawing') => ReleaseStep ]_vars

C8_Witness ==
    /\ lastEvent.type = "pointerleave"
    /\ drawing
    /\ Len(currentPoints) >= 2
    /\ strokeHistory # <<>>

\* what an export has delivered is one file or one notice
OneOutcome(o) == Len(o.files) + o.notices = 1

C9_Outcomes ==
    /\ \A id \in DOMAIN outcomes :
          IF id \in DOMAIN exports
          THEN outcomes[id] = NoOutcome
          ELSE OneOutcome(outcomes[id])
    /\ lastEvent.type = "error" =>
          /\ outcomes[lastEvent.export] = [files |-> <<>>, notices |-> 1]
          /\ lastEvent.export \notin DOMAIN exports

C10_FileIsLogicalSizeOnWhite ==
    \A id \in DOMAIN outcomes :
        \A i \in 1..Len(outcomes[id].files) :
            LET file == outcomes[id].files[i]
            IN /\ file.width = vbWidth /\ file.width = 1000
               /\ file.height = vbHeight /\ file.height = 600
               /\ Len(file.layers) = 2
               /\ file.layers[1].op = "fillRect"
               /\ file.layers[1].fillStyle = "#ffffff"
               /\ file.layers[1].x = 0 /\ file.layers[1].y = 0
               /\ file.layers[1].w = file.width /\ file.layers[1].h = file.height
               /\ file.layers[2].op = "drawImage"
               /\ file.layers[2].w = file.width /\ file.layers[2].h = file.height

C10_Witness ==
    /\ lastEvent.type = "load"
    /\ \E id \in DOMAIN outcomes :
          /\ Len(outcomes[id].files) = 1
          /\ Len(outcomes[id].files[1].layers[2].image) = 2

----------------------------------------------------------------------------
(* Coordinate mapping on its own *)

\* on-screen boxes of the canvas, at two offsets and two sizes
MapBoxes ==
    { [left |-> l, top |-> t, width |-> w, height |-> h] :
        l \in {0, 64}, t \in {0, 32}, w \in {128, 256}, h \in {64, 128} }

\* pointer offsets from the corner of the box, in screen pixels
MapOffsets == { [dx |-> dx, dy |-> dy] : dx \in {0, 64, 128}, dy \in {0, 32, 64} }

At(rect, o) == [clientX |-> rect.left + o.dx, clientY |-> rect.top + o.dy]

Doubled(rect) == [rect EXCEPT !.width = 2 * @, !.height = 2 * @]

\* getSvgPoint applied to two events and to the corner of the box, under the
\* box and under the box at twice the size
Measure ==
    \E rect \in MapBoxes, o1 \in MapOffsets, o2 \in MapOffsets :
        /\ probe' = [ measured |-> TRUE, rect |-> rect,
                      e1 |-> At(rect, o1), e2 |-> At(rect, o2),
                      corner |-> getSvgPoint(At(rect, [dx |-> 0, dy |-> 0]), rect),
                      p1 |-> getSvgPoint(At(rect, o1), rect),
                      p2 |-> getSvgPoint(At(rect, o2), rect),
                      q1 |-> getSvgPoint(At(rect, o1), Doubled(rect)),
                      q2 |-> getSvgPoint(At(rect, o2), Doubled(rect)) ]
        /\ lastEvent' = Event("measure", "none")
        /\ UNCHANGED <<recorderVars, controlVars, capture, uncaught, exportVars,
                       samples, downControls>>

NextMap == Measure

SpecMap == Init /\ [][NextMap]_vars

\* C11: the mapping sends the corner of the box to the logical origin, the
\* mapped delta of two positions is their screen delta scaled by viewBox size
\* over box size, and under a box of twice the width (height) the mapped
\* x-delta (y-delta) of the same two positions is half as large.
C11_MappingLinearFromOrigin ==
    probe.measured =>
        /\ probe.corner = [x |-> 0, y |-> 0]
        /\ (probe.p2.x - probe.p1.x) * probe.rect.width
              = (probe.e2.clientX - probe.e1.clientX) * vbWidth
        /\ (probe.p2.y - probe.p1.y) * probe.rect.height
              = (probe.e2.clientY - probe.e1.clientY) * vbHeight
        /\ 2 * (probe.q2.x - probe.q1.x) = probe.p2.x - probe.p1.x
        /\ 2 * (probe.q2.y - probe.q1.y) = probe.p2.y - probe.p1.y

C11_Witness ==
    /\ probe.measured
    /\ probe.rect.left # 0 /\ probe.rect.top # 0
    /\ probe.p2.x - probe.p1.x = 500
    /\ probe.q2.x - probe.q1.x = 250
    /\ probe.p2.y - probe.p1.y = 300
    /\ probe.q2.y - probe.q1.y = 150

\* the paths of the scene that are not committed to strokeHistory
Uncommitted == { i \in 1..Len(strokesGroup) : strokesGroup[i] \notin Range(strokeHistory) }

\* C12: whenever the recorder is Idle the paths of the scene are the strokes
\* of strokeHistory, in the same order.
C12_IdleSceneIsHistory ==
    ~drawing => strokesGroup = strokeHistory

\* C13: the scene never holds more than one path that is in progress, that
\* is, not committed to strokeHistory.
C13_OneUncommittedPath ==
    Cardinality(Uncommitted) <= 1

\* C14: a step changes strokeHistory by appending one stroke (on a release),
\* by removing its last stroke (on an undo), by emptying it (on a clear), or
\* not at all.
C14_HistoryChangesThreeWays ==
    [][ \/ strokeHistory' = strokeHistory
        \/ /\ ReleaseStep
           /\ \E id \in DOMAIN paths' : strokeHistory' = Append(strokeHistory, id)
        \/ /\ UndoStep
           /\ strokeHistory # <<>>
           /\ strokeHistory' = SubSeq(strokeHistory, 1, Len(strokeHistory) - 1)
        \/ /\ lastEvent'.type = "clear"
           /\ strokeHistory' = <<>> ]_vars

C14_Witness ==
    /\ lastEvent.type = "keydown"
    /\ lastEvent.effect = "pop"
    /\ Len(strokeHistory) = 1
    /\ strokesGroup = strokeHistory

\* C15: a stroke that is in strokeHistory before and after a step has the
\* same geometry, colour and width after it as before, and a stroke leaves
\* strokeHistory in an undo or a clear only.
C15_CommittedStrokeIsImmutable ==
    [][ /\ \A id \in Range(strokeHistory) \cap Range(strokeHistory') :
              paths'[id] = paths[id]
        /\ (Range(strokeHistory) \ Range(strokeHistory') # {}) =>
              (UndoStep \/ lastEvent'.type = "clear") ]_vars

C15_Witness ==
    /\ lastEvent.effect = "release"
    /\ lastEvent.restyled
    /\ Len(strokeHistory) = 2
    /\ paths[strokeHistory[1]].stroke # paths[strokeHistory[2]].stroke
    /\ paths[strokeHistory[1]].strokeWidth # paths[strokeHistory[2]].strokeWidth

\* C16: no exception escapes a handler, in any reachable state.
C16_NoHandlerRaises ==
    uncaught = "none"

\* C17: when releasePointerCapture raises in a release, nothing escapes the
\* handler, the stroke is committed if the gesture has at least 2 samples and
\* discarded otherwise, and the recorder is Idle with no active stroke.
C17_FailedReleaseStillFinalizes ==
    [][ (ReleaseStep /\ lastEvent'.releaseThrew) =>
            /\ uncaught' = "none"
            /\ ~drawing'
            /\ currentPath' = Null
            /\ currentPoints' = <<>>
            /\ IF Len(samples) >= 2
               THEN \E id \in DOMAIN paths' : strokeHistory' = Append(strokeHistory, id)
               ELSE /\ strokeHistory' = strokeHistory
                    /\ currentPath \notin Range(strokesGroup') ]_vars

\* C18: a pointer-down of a mouse with a non-primary button changes nothing
\* of the recorder; an accepted pointer-down on an Idle recorder makes it
\* Drawing with an active path in the scene that holds the mapped start point
\* and nothing else; a move or a release is taken whatever its button.
C18_ButtonFilterAtPointerDownOnly ==
    [][ /\ (lastEvent'.type = "pointerdown" /\ lastEvent'.effect = "filtered") =>
              UNCHANGED <<recorderVars, capture>>
        /\ (lastEvent'.type = "pointerdown" /\ lastEvent'.effect = "begin" /\ ~drawing) =>
              /\ drawing'
              /\ currentPath' \in DOMAIN paths'
              /\ currentPath' \in Range(strokesGroup')
              /\ Len(currentPoints') = 1
              /\ currentPoints' = LogicalSamples'
              /\ PointsOf(paths'[currentPath'].d) = LogicalSamples'
              /\ strokeHistory' = strokeHistory
        /\ (lastEvent'.type = "pointermove" /\ drawing /\ currentPath # Null) =>
              Len(currentPoints') = Len(currentPoints) + 1
        /\ (ReleaseStep /\ drawing) => ~drawing' ]_vars

C18_Witness ==
    /\ lastEvent.type = "pointerdown"
    /\ lastEvent.effect = "filtered"
    /\ ~drawing
    /\ strokeHistory # <<>>
    /\ currentPath = Null

FlagsAgree ==
    /\ drawing <=> (currentPath # Null /\ currentPoints # <<>>)
    /\ ~drawing => (currentPath = Null /\ currentPoints = <<>>)

\* C20: between handlers the drawing flag is true exactly when there is an
\* active stroke (currentPath set, currentPoints not empty), and when it is
\* false currentPath is unset and currentPoints is empty; a pointer-move,
\* pointer-up or pointer-cancel received while Idle changes nothing.
C20_FlagsAgreeAndIdleIgnoresMoves ==
    [][ /\ FlagsAgree'
        /\ (~drawing /\ lastEvent'.type \in {"pointermove", "pointerup", "pointercancel"}) =>
               UNCHANGED recorderVars ]_vars

\* the paths of the scene as they are drawn, bottom first
Rendered == [i \in 1..Len(strokesGroup) |-> paths[strokesGroup[i]]]

\* what the one file of export id shows over its white background
Delivered(id) == outcomes[id].files[1].layers[2].image

\* C19: the image an export takes at its trigger is the scene of that moment;
\* no event changes the image of an export in flight; the file it delivers
\* shows that image; and the trigger and the callbacks of an export change
\* neither strokeHistory, the scene nor the gesture state.
C19_ExportDeliversSceneAtTrigger ==
    [][ /\ \A id \in DOMAIN exports' \ DOMAIN exports :
              exports'[id].src.strokes = Rendered
        /\ \A id \in DOMAIN exports \cap DOMAIN exports' :
              exports'[id] = exports[id]
        /\ \A id \in DOMAIN exports \ DOMAIN exports' :
              outcomes'[id].files # <<>> => Delivered(id)' = exports[id].src.strokes
        /\ lastEvent'.type \in {"save", "load", "error"} =>
              UNCHANGED <<recorderVars, capture>> ]_vars

\* a file delivered after the scene it shows has gone
C19_Witness ==
    /\ lastEvent.type = "load"
    /\ outcomes[lastEvent.export].files # <<>>
    /\ Delivered(lastEvent.export) # <<>>
    /\ Delivered(lastEvent.export) # Rendered

====
